---- MODULE Spec2Model ----
(***************************************************************************)
(* Verification model of the YouTube audit batch layer.                    *)
(*                                                                         *)
(*   Spec         BatchRunner.run(): waves of tasks on a thread pool, the  *)
(*                retry loop and one _execute_task per attempt, with the   *)
(*                audit session seen through the results of its calls.     *)
(*   SpecFair     Spec with the main thread and the pool threads kept     *)
(*                running.                                                 *)
(*   SpecTracker  StatusTracker: threads calling mutators, the lock, the   *)
(*                temporary file and its rename over status.json.          *)
(*   SpecSession  one YouTubeAuditor driven through InitDriver, Train,     *)
(*                Run, Report and CleanUp.                                 *)
(*   SpecTeardown sessions of both classes set up and torn down.           *)
(*   SpecWait     the watch interval of watch() and Run() on its own.      *)
(*   SpecSnapshot StatusTracker.get_state and what its caller holds.       *)
(*   SpecRecover  SpecTracker and a second tracker calling load_existing.  *)
(*   SpecStore    FileStorage and CompositeStorage: save_result and        *)
(*                load_result, one call at a time.                         *)
(*   SpecLegacy   task(arg) of experiment_main driving a SockPuppet.       *)
(*                                                                         *)
(* Python runs with assert statements enabled.  Progress and event         *)
(* callbacks other than BatchRunner's own on_progress do not raise, and a  *)
(* snapshot write that is not cut short by a crash succeeds.  The          *)
(* configured sleep_range is ordered, so that randint returns.             *)
(***************************************************************************)
EXTENDS Integers, Sequences, FiniteSets, TLC

\* ---------------------------------------------------------------- bounds
Threads == 2              \* ExperimentConfig.threads
MaxRetries == 3           \* BatchRunner(max_retries=3)
NumTasks == Threads + 1   \* len(config.tasks): one full wave and a last, partial one
Hops == 2                 \* config.hops: path length of a finished collection

Tasks == 0 .. (NumTasks - 1)

VARIABLES
    \* --- StatusTracker
    state,          \* self.state, timestamps aside
    \* --- BatchRunner.run (main thread)
    mainPc,         \* position of run()
    batchStart,     \* batch_start of the wave in progress
    queue,          \* executor work queue: submitted, not yet started
    fut,            \* state of each task's future
    collected,      \* futures already taken from as_completed
    slept,          \* number of rate-limiting pauses taken
    \* --- worker side, one slot per task index
    pc,             \* position inside _execute_task_with_retry
    attempt,        \* the retry loop's variable
    sess,           \* the attempt's YouTubeAuditor
    ret,            \* how _execute_task_with_retry ended: result, none, raise
    \* --- what was called, per task index
    incCompletedCalls,
    incFailedCalls,
    saveCalls,
    stored,         \* task ids whose save_result call returned
    cleanupCalls,   \* CleanUp invocations on the attempt's session
    everComplete,   \* some attempt's Run returned 0
    \* --- StatusTracker under threads: lock, files, callers
    lock,           \* self.lock: 0 when free, else the holding thread
    tpc,            \* each calling thread's position inside a mutator
    made,           \* mutator calls started so far
    tmp,            \* status.tmp: "absent" or what has been written to it
    file,           \* status.json: "absent" or its content
    wpos,           \* each writer's offset into status.tmp
    crashed,        \* the process was killed
    memVer,         \* number of mutations applied to self.state
    myVer,          \* memVer right after each thread's latest mutation
    tmpVer,         \* memVer when the dump in status.tmp began
    fileVer,        \* memVer of the dump now at status.json
    \* --- one YouTubeAuditor and its caller
    ya,             \* the session's fields
    yaPc,           \* its lifecycle state
    run,            \* locals of Train and Run, and what the session went through
    yaLast,         \* the latest call on the session and what it gave back
    \* --- one legacy SockPuppet
    sp,
    \* --- the latest watch interval computed
    wres,
    \* --- a caller of get_state and the dict it was handed
    snap,
    \* --- a second StatusTracker on the same experiment directory
    rec,
    \* --- result stores: directories, what was saved, the latest call
    store,
    \* --- one call of the legacy runner task(arg)
    lt,
    \* --- the legacy pair runner main(): its loop, and the database
    pr

mainVars == <<mainPc, batchStart, collected, slept, saveCalls, stored>>
workerVars == <<pc, attempt, sess, ret, incCompletedCalls, incFailedCalls,
                cleanupCalls, everComplete>>
batchVars == <<mainVars, workerVars, queue, fut>>
trackerVars == <<lock, tpc, made, tmp, file, wpos, crashed, memVer, myVer,
                 tmpVer, fileVer>>
sideVars == <<snap, rec, store, lt, pr>>
sessVars == <<ya, yaPc, run, yaLast, sp, wres, sideVars>>

\* ------------------------------------------------- StatusTracker: the state
InitialState ==
    [ status |-> "pending",
      total_tasks |-> 0,
      completed_tasks |-> 0,
      failed_tasks |-> 0,
      current_task_index |-> -1,
      current_tasks |-> <<>>,
      successful_runs |-> 0,
      failed_runs |-> 0,
      retries |-> 0,
      restricted_videos |-> 0,
      autoplay_paths |-> 0 ]

HealthMetrics == {"successful_runs", "failed_runs", "retries", "restricted_videos"}

\* The change each mutator makes inside its first `with self.lock` block.
start(s, total_tasks) ==
    [s EXCEPT !.status = "running", !.total_tasks = total_tasks]

complete(s) ==
    [s EXCEPT !.status = "completed"]

fail(s) ==
    [s EXCEPT !.status = "failed"]

update_current_task(s, task_index, task_id) ==
    [s EXCEPT !.current_task_index = task_index,
              !.current_tasks = (task_id :> "pending")]

update_task_progress(s, task_id, phase) ==
    IF task_id \in DOMAIN s.current_tasks
    THEN [s EXCEPT !.current_tasks[task_id] = phase]
    ELSE s

\* An increment computed from a value read before another thread's increment.
increment_completed_LostUpdate(s) ==
    [s EXCEPT !.completed_tasks = IF @ = 0 THEN 1 ELSE @]

increment_completed(s) ==
    [s EXCEPT !.completed_tasks = @ + 1]

increment_failed(s) ==
    [s EXCEPT !.failed_tasks = @ + 1]

increment_health(s, metric) ==
    IF metric \in HealthMetrics
    THEN [s EXCEPT ![metric] = @ + 1]
    ELSE s

update_data_collected(s, autoplay_paths) ==
    [s EXCEPT !.autoplay_paths = @ + autoplay_paths]

\* ------------------------------------------------- YouTubeAuditor lifecycle
NewAuditor == [initialized |-> FALSE, driver |-> "none"]

\* CleanUp starts with `assert self.initialized`.
CleanUpRaises(a) == ~a.initialized

\* CleanUp(kill=True) on an initialized session: quit the driver, drop it.
CleanUp(a) == [a EXCEPT !.driver = "none", !.initialized = FALSE]

\* InitDriver: webdriver.Chrome(...) acquires the browser; the window wait then
\* succeeds, times out err_attempts times (return True), or raises.
InitDriverResult(a, o) ==
    [a EXCEPT !.driver = IF o = "raise_before_acquire" THEN @ ELSE "live",
              !.initialized = (o = "ok")]

InitOutcomes == {"ok", "timeout", "raise_before_acquire", "raise_after_acquire"}
TrainOutcomes == {"ok", "failed", "raise"}
RunOutcomes == {"complete", "failed", "raise"}

\* ------------------------------------------------- BatchRunner: worker side
\* The body of _execute_task between two session calls touches only the
\* attempt's own session and the tracker, so each action below is one session
\* call together with the supervisor code that follows it, up to the next
\* session call or to the end of the attempt.  The pieces of that code are
\* operators on a context record:
\*   state, sess, cleanupCalls, incFailed, incCompleted   what the code changes
\*   exit   "running" | "result" | "none" | "raise"        how _execute_task ends
Ctx(t) ==
    [ state |-> state,
      sess |-> sess[t],
      cleanupCalls |-> cleanupCalls[t],
      incFailed |-> incFailedCalls[t],
      incCompleted |-> incCompletedCalls[t],
      exit |-> "running" ]

\* One auditor.CleanUp(kill=True) call.  A failed assertion raises out of the
\* caller: out of the finally clause it replaces the pending return.
CallCleanUp(c) ==
    [c EXCEPT !.cleanupCalls = @ + 1,
              !.sess = IF CleanUpRaises(@) THEN @ ELSE CleanUp(@),
              !.exit = IF CleanUpRaises(c.sess) THEN "raise" ELSE @]

\* finally: auditor.CleanUp(kill=True)
FinallyClause(c) == CallCleanUp(c)

\* Training failed / result_code == -1:
\*   increment_failed(); increment_health("failed_runs"); CleanUp(kill=True); return None
EarlyReturn(c) ==
    CallCleanUp([c EXCEPT !.state = increment_health(increment_failed(@), "failed_runs"),
                          !.incFailed = @ + 1,
                          !.exit = "none"])

\* A handler that hands back the partial report instead of None.
ExceptHandler_ReturnsReport(c) ==
    [c EXCEPT !.state = increment_health(increment_failed(@), "failed_runs"),
              !.incFailed = @ + 1,
              !.exit = "result"]

\* except Exception: increment_failed(); increment_health("failed_runs"); return None
ExceptHandler(c) ==
    [c EXCEPT !.state = increment_health(increment_failed(@), "failed_runs"),
              !.incFailed = @ + 1,
              !.exit = "none"]

\* A success branch that forgets to return the report.
ReportAndCount_ReturnsNone(c) ==
    [c EXCEPT !.state = update_data_collected(
                           increment_health(increment_completed(@), "successful_runs"),
                           Hops),
              !.incCompleted = @ + 1,
              !.exit = "none"]

\* result = auditor.Report(); increment_completed(); increment_health(...);
\* update_data_collected(...); return result
ReportAndCount(c) ==
    [c EXCEPT !.state = update_data_collected(
                           increment_health(increment_completed(@), "successful_runs"),
                           Hops),
              !.incCompleted = @ + 1,
              !.exit = "result"]

\* on_progress: what the session's events do to the tracker.
OnProgress(s, t, phase, seen, restricted) ==
    LET s1 == IF seen THEN update_task_progress(s, t, phase) ELSE s
    IN  IF restricted THEN increment_health(s1, "restricted_videos") ELSE s1

\* The try statement once Train has returned or raised.
AfterTrain(c, o) ==
    CASE o = "ok" -> c
      [] o = "failed" -> FinallyClause(EarlyReturn(c))
      [] OTHER -> FinallyClause(ExceptHandler(c))

\* The try statement once Run has returned or raised.
AfterRun(c, o) ==
    CASE o = "complete" -> FinallyClause(ReportAndCount(c))
      [] o = "failed" -> FinallyClause(EarlyReturn(c))
      [] OTHER -> FinallyClause(ExceptHandler(c))

\* Where the attempt stands once the code of context c has run: it goes on
\* with `next`, or _execute_task returned None into the retry loop, or the
\* work item is over with a result or an exception.
Leave(t, c, next) ==
    /\ state' = c.state
    /\ sess' = [sess EXCEPT ![t] = c.sess]
    /\ cleanupCalls' = [cleanupCalls EXCEPT ![t] = c.cleanupCalls]
    /\ incFailedCalls' = [incFailedCalls EXCEPT ![t] = c.incFailed]
    /\ incCompletedCalls' = [incCompletedCalls EXCEPT ![t] = c.incCompleted]
    /\ CASE c.exit = "running" ->
              /\ pc' = [pc EXCEPT ![t] = next]
              /\ UNCHANGED <<ret, attempt>>
         [] c.exit = "none" ->
              /\ pc' = [pc EXCEPT ![t] = "loop"]
              /\ attempt' = [attempt EXCEPT ![t] = @ + 1]
              /\ UNCHANGED ret
         [] OTHER ->
              /\ pc' = [pc EXCEPT ![t] = "returned"]
              /\ ret' = [ret EXCEPT ![t] = c.exit]
              /\ UNCHANGED attempt

Running == {t \in Tasks : fut[t] = "running"}

\* A pool thread that starts the oldest work item and leaves it in the queue.
StartTask_KeepsQueued(t) ==
    /\ queue # <<>>
    /\ Head(queue) = t
    /\ Cardinality(Running) < Threads
    /\ fut' = [fut EXCEPT ![t] = "running"]
    /\ pc' = [pc EXCEPT ![t] = "loop"]
    /\ attempt' = [attempt EXCEPT ![t] = 0]
    /\ UNCHANGED <<state, mainVars, queue, sess, ret, incCompletedCalls,
                   incFailedCalls, cleanupCalls, everComplete>>
    /\ UNCHANGED <<trackerVars, sessVars>>

\* A pool thread takes the oldest submitted work item.
StartTask(t) ==
    /\ queue # <<>>
    /\ Head(queue) = t
    /\ Cardinality(Running) < Threads
    /\ queue' = Tail(queue)
    /\ fut' = [fut EXCEPT ![t] = "running"]
    /\ pc' = [pc EXCEPT ![t] = "loop"]
    /\ attempt' = [attempt EXCEPT ![t] = 0]
    /\ UNCHANGED <<state, mainVars, sess, ret, incCompletedCalls,
                   incFailedCalls, cleanupCalls, everComplete>>
    /\ UNCHANGED <<trackerVars, sessVars>>

\* for attempt in range(self.max_retries): the next attempt, from the retry
\* bookkeeping over the new YouTubeAuditor and its InitDriver to
\* update_current_task.  InitDriver is called outside the try statement.
BeginAttempt(t) ==
    /\ pc[t] = "loop"
    /\ attempt[t] < MaxRetries
    /\ \E o \in InitOutcomes :
        LET c0 == [Ctx(t) EXCEPT
                      !.state = IF attempt[t] > 0
                                THEN increment_health(@, "retries") ELSE @,
                      !.sess = InitDriverResult(NewAuditor, o),
                      !.cleanupCalls = 0]
            c1 == CASE o = "ok" ->
                        [c0 EXCEPT !.state = update_current_task(@, t, t)]
                     [] o = "timeout" -> [c0 EXCEPT !.exit = "none"]
                     [] OTHER -> [c0 EXCEPT !.exit = "raise"]
        IN  Leave(t, c1, "train")
    /\ UNCHANGED <<mainVars, queue, fut, everComplete>>
    /\ UNCHANGED <<trackerVars, sessVars>>

\* The loop ran out: log and return None.
RetriesExhausted(t) ==
    /\ pc[t] = "loop"
    /\ attempt[t] >= MaxRetries
    /\ pc' = [pc EXCEPT ![t] = "returned"]
    /\ ret' = [ret EXCEPT ![t] = "none"]
    /\ UNCHANGED <<state, mainVars, queue, fut, attempt, sess, incCompletedCalls,
                   incFailedCalls, cleanupCalls, everComplete>>
    /\ UNCHANGED <<trackerVars, sessVars>>

\* The pool thread ends the work item: the future gets the result or the
\* exception, and the frame of _execute_task_with_retry is dropped.
SetFuture(t) ==
    /\ pc[t] = "returned"
    /\ fut' = [fut EXCEPT ![t] =
                 CASE ret[t] = "result" -> "result"
                   [] ret[t] = "none" -> "none_result"
                   [] OTHER -> "exception"]
    /\ pc' = [pc EXCEPT ![t] = "done"]
    /\ ret' = [ret EXCEPT ![t] = "none"]
    /\ attempt' = [attempt EXCEPT ![t] = 0]
    /\ sess' = [sess EXCEPT ![t] = NewAuditor]
    /\ cleanupCalls' = [cleanupCalls EXCEPT ![t] = 0]
    /\ UNCHANGED <<state, mainVars, queue, incCompletedCalls, incFailedCalls,
                   everComplete>>
    /\ UNCHANGED <<trackerVars, sessVars>>

\* if auditor.Train(task.video_ids): the training_progress events reach
\* update_task_progress through on_progress.  `seen` is whether Train got as
\* far as its first progress event before raising.
Train(t) ==
    /\ pc[t] = "train"
    /\ \E o \in TrainOutcomes, seen \in BOOLEAN :
        /\ (o # "raise") => seen
        /\ Leave(t, AfterTrain([Ctx(t) EXCEPT
                       !.state = OnProgress(@, t, "training", seen, FALSE)], o),
                 "run")
    /\ UNCHANGED <<mainVars, queue, fut, everComplete>>
    /\ UNCHANGED <<trackerVars, sessVars>>

\* result_code = auditor.Run(self.config.hops, self.config.watch_time), with the
\* collection_progress and restricted_video events it sends to on_progress.
Run(t) ==
    /\ pc[t] = "run"
    /\ \E o \in RunOutcomes, seen \in BOOLEAN, restricted \in BOOLEAN :
        /\ (o # "raise") => seen
        /\ restricted => seen
        /\ Leave(t, AfterRun([Ctx(t) EXCEPT
                       !.state = OnProgress(@, t, "collection", seen, restricted)], o),
                 "run")
        /\ everComplete' = [everComplete EXCEPT ![t] = @ \/ (o = "complete")]
    /\ UNCHANGED <<mainVars, queue, fut>>
    /\ UNCHANGED <<trackerVars, sessVars>>

\* ------------------------------------------------- BatchRunner.run
batch_end == IF batchStart + Threads < NumTasks THEN batchStart + Threads ELSE NumTasks
Wave == {t \in Tasks : batchStart <= t /\ t < batch_end}

RECURSIVE Range(_, _)
Range(a, b) == IF a >= b THEN <<>> ELSE <<a>> \o Range(a + 1, b)

\* self.status.start(total_tasks)
RunStart ==
    /\ mainPc = "start"
    /\ state' = start(state, NumTasks)
    /\ mainPc' = "submit"
    /\ UNCHANGED <<batchStart, collected, slept, saveCalls, stored, workerVars,
                   queue, fut>>
    /\ UNCHANGED <<trackerVars, sessVars>>

\* futures = {executor.submit(self._execute_task_with_retry, ...) ...}
SubmitWave ==
    /\ mainPc = "submit"
    /\ batchStart < NumTasks
    /\ queue' = queue \o Range(batchStart, batch_end)
    /\ fut' = [t \in Tasks |-> IF t \in Wave THEN "queued" ELSE fut[t]]
    /\ mainPc' = "collect"
    /\ UNCHANGED <<state, batchStart, collected, slept, saveCalls, stored, workerVars>>
    /\ UNCHANGED <<trackerVars, sessVars>>

SaveOutcomes == {"ok", "raise"}

\* A collection loop that takes reports only and waits for the other futures.
CollectResult_ReportsOnly(t) ==
    /\ mainPc = "collect"
    /\ t \in Wave
    /\ ~collected[t]
    /\ fut[t] = "result"
    /\ collected' = [collected EXCEPT ![t] = TRUE]
    /\ \E o \in SaveOutcomes :
          /\ saveCalls' = [saveCalls EXCEPT ![t] = @ + 1]
          /\ stored' = IF o = "ok" THEN stored \cup {t} ELSE stored
    /\ UNCHANGED <<state, mainPc, batchStart, slept, workerVars, queue, fut>>
    /\ UNCHANGED <<trackerVars, sessVars>>

\* for future in as_completed(futures): ... self.storage.save_result(...)
CollectResult(t) ==
    /\ mainPc = "collect"
    /\ t \in Wave
    /\ ~collected[t]
    /\ fut[t] \in {"result", "none_result", "exception"}
    /\ collected' = [collected EXCEPT ![t] = TRUE]
    /\ IF fut[t] = "result"
       THEN \E o \in SaveOutcomes :
              /\ saveCalls' = [saveCalls EXCEPT ![t] = @ + 1]
              /\ stored' = IF o = "ok" THEN stored \cup {t} ELSE stored
       ELSE UNCHANGED <<saveCalls, stored>>
    /\ UNCHANGED <<state, mainPc, batchStart, slept, workerVars, queue, fut>>
    /\ UNCHANGED <<trackerVars, sessVars>>

\* A run() that goes on to the next wave without draining this one.
WaveDone_NoWait ==
    /\ mainPc = "collect"
    /\ IF batch_end < NumTasks
       THEN mainPc' = "sleep"
       ELSE mainPc' = "submit"
    /\ batchStart' = IF batch_end < NumTasks THEN batchStart ELSE batchStart + Threads
    /\ UNCHANGED <<state, collected, slept, saveCalls, stored, workerVars, queue, fut>>
    /\ UNCHANGED <<trackerVars, sessVars>>

\* The wave is drained: sleep if another wave follows, then the next batch_start.
WaveDone ==
    /\ mainPc = "collect"
    /\ \A t \in Wave : collected[t]
    /\ IF batch_end < NumTasks
       THEN mainPc' = "sleep"
       ELSE mainPc' = "submit"
    /\ batchStart' = IF batch_end < NumTasks THEN batchStart ELSE batchStart + Threads
    /\ UNCHANGED <<state, collected, slept, saveCalls, stored, workerVars, queue, fut>>
    /\ UNCHANGED <<trackerVars, sessVars>>

\* time.sleep(sleep_time)
BatchSleep ==
    /\ mainPc = "sleep"
    /\ slept' = slept + 1
    /\ batchStart' = batchStart + Threads
    /\ mainPc' = "submit"
    /\ UNCHANGED <<state, collected, saveCalls, stored, workerVars, queue, fut>>
    /\ UNCHANGED <<trackerVars, sessVars>>

\* A run() that marks the experiment completed while a wave is still out.
RunComplete_Early ==
    /\ mainPc \in {"submit", "collect"}
    /\ state' = complete(state)
    /\ mainPc' = "done"
    /\ UNCHANGED <<batchStart, collected, slept, saveCalls, stored, workerVars,
                   queue, fut>>
    /\ UNCHANGED <<trackerVars, sessVars>>

\* self.status.complete()
RunComplete ==
    /\ mainPc = "submit"
    /\ batchStart >= NumTasks
    /\ state' = complete(state)
    /\ mainPc' = "done"
    /\ UNCHANGED <<batchStart, collected, slept, saveCalls, stored, workerVars,
                   queue, fut>>
    /\ UNCHANGED <<trackerVars, sessVars>>

\* ------------------------------------------------- StatusTracker under threads
MaxMutations == 3    \* mutator calls made in one run, all threads together
ChunkLen == 6        \* fields that reach status.tmp in one write

\* The tracker is called from the pool's worker threads.
CallerThreads == 1 .. Threads

\* The calls a thread can make; a worker thread reports on its own task id.
CallsOf(th) ==
    {[op |-> o, arg |-> 0, phase |-> "none"] :
        o \in {"complete", "fail", "increment_completed", "increment_failed"}}
    \cup {[op |-> "start", arg |-> NumTasks, phase |-> "none"]}
    \cup {[op |-> "update_current_task", arg |-> th, phase |-> "none"]}
    \cup {[op |-> "update_task_progress", arg |-> th, phase |-> ph] :
            ph \in {"training", "collection"}}
    \cup {[op |-> "increment_health", arg |-> 0, phase |-> m] :
            m \in {"retries", "no_such_metric"}}
    \cup {[op |-> "update_data_collected", arg |-> Hops, phase |-> "none"]}

\* The first critical section of mutator c.
Mutate(s, c) ==
    CASE c.op = "start" -> start(s, c.arg)
      [] c.op = "complete" -> complete(s)
      [] c.op = "fail" -> fail(s)
      [] c.op = "update_current_task" -> update_current_task(s, c.arg, c.arg)
      [] c.op = "update_task_progress" -> update_task_progress(s, c.arg, c.phase)
      [] c.op = "increment_completed" -> increment_completed(s)
      [] c.op = "increment_failed" -> increment_failed(s)
      [] c.op = "increment_health" -> increment_health(s, c.phase)
      [] c.op = "update_data_collected" -> update_data_collected(s, c.arg)
      [] OTHER -> s

\* json.dump(self.state, f): the fields in the order the dict holds them, each
\* as a <<key, value>> pair.
FieldOrder ==
    << "status", "total_tasks", "completed_tasks", "failed_tasks",
       "current_task_index", "current_tasks", "successful_runs", "failed_runs",
       "retries", "restricted_videos", "autoplay_paths" >>

Serialize(s) == [i \in 1 .. Len(FieldOrder) |-> <<FieldOrder[i], s[FieldOrder[i]]>>]

\* json.load: the record a complete dump stands for.
Parse(f) ==
    [k \in {f[i][1] : i \in 1 .. Len(f)} |->
        f[CHOOSE i \in 1 .. Len(f) : f[i][1] = k][2]]

\* A write of `chunk` at offset pos of a file holding f.
WriteAt(f, pos, chunk) ==
    IF f = "absent" THEN f
    ELSE LET padded == [i \in 1 .. pos |-> IF i <= Len(f) THEN f[i] ELSE <<"hole", 0>>]
             rest == IF Len(f) > pos + Len(chunk)
                     THEN SubSeq(f, pos + Len(chunk) + 1, Len(f))
                     ELSE <<>>
         IN  padded \o chunk \o rest

Min(a, b) == IF a < b THEN a ELSE b

\* A thread calls a mutator c:  with self.lock: <c's change of self.state>
MutateLocked(th) ==
    /\ ~crashed
    /\ tpc[th] \in {"idle", "returned"}
    /\ made < MaxMutations
    /\ lock = 0
    /\ lock' = th
    /\ \E c \in CallsOf(th) : state' = Mutate(state, c)
    /\ made' = made + 1
    /\ memVer' = memVer + 1
    /\ myVer' = [myVer EXCEPT ![th] = memVer + 1]
    /\ tpc' = [tpc EXCEPT ![th] = "unlock"]
    /\ UNCHANGED <<tmp, file, wpos, crashed, tmpVer, fileVer>>
    /\ UNCHANGED <<batchVars, sessVars>>

\* A mutator that returns without calling self._write().
Unlock_SkipsWrite(th) ==
    /\ ~crashed
    /\ tpc[th] = "unlock"
    /\ lock' = 0
    /\ tpc' = [tpc EXCEPT ![th] = "returned"]
    /\ UNCHANGED <<state, made, tmp, file, wpos, crashed, memVer, myVer,
                   tmpVer, fileVer>>
    /\ UNCHANGED <<batchVars, sessVars>>

\* The end of the mutator's with block; self._write() is called next.
Unlock(th) ==
    /\ ~crashed
    /\ tpc[th] = "unlock"
    /\ lock' = 0
    /\ tpc' = [tpc EXCEPT ![th] = "write"]
    /\ UNCHANGED <<state, made, tmp, file, wpos, crashed, memVer, myVer,
                   tmpVer, fileVer>>
    /\ UNCHANGED <<batchVars, sessVars>>

\* A _write that does not take the lock.
WriteLock_NoLock(th) ==
    /\ ~crashed
    /\ tpc[th] = "write"
    /\ tpc' = [tpc EXCEPT ![th] = "open"]
    /\ UNCHANGED <<state, lock, made, tmp, file, wpos, crashed, memVer, myVer,
                   tmpVer, fileVer>>
    /\ UNCHANGED <<batchVars, sessVars>>

\* _write: with self.lock:
WriteLock(th) ==
    /\ ~crashed
    /\ tpc[th] = "write"
    /\ lock = 0
    /\ lock' = th
    /\ tpc' = [tpc EXCEPT ![th] = "open"]
    /\ UNCHANGED <<state, made, tmp, file, wpos, crashed, memVer, myVer,
                   tmpVer, fileVer>>
    /\ UNCHANGED <<batchVars, sessVars>>

\* open(temp_file, 'w'): create or truncate status.tmp.
WriteOpen(th) ==
    /\ ~crashed
    /\ tpc[th] = "open"
    /\ tmp' = <<>>
    /\ wpos' = [wpos EXCEPT ![th] = 0]
    /\ tmpVer' = memVer
    /\ tpc' = [tpc EXCEPT ![th] = "dump"]
    /\ UNCHANGED <<state, lock, made, file, crashed, memVer, myVer, fileVer>>
    /\ UNCHANGED <<batchVars, sessVars>>

\* json.dump(self.state, f, indent=2): the next part of the dump reaches the
\* file; the with block closes the file after the last part.
WriteChunk(th) ==
    /\ ~crashed
    /\ tpc[th] = "dump"
    /\ LET data == Serialize(state)
           n == Min(ChunkLen, Len(data) - wpos[th])
       IN  /\ tmp' = WriteAt(tmp, wpos[th], SubSeq(data, wpos[th] + 1, wpos[th] + n))
           /\ wpos' = [wpos EXCEPT ![th] = @ + n]
           /\ tpc' = [tpc EXCEPT ![th] =
                        IF wpos[th] + n >= Len(data) THEN "replace" ELSE "dump"]
    /\ UNCHANGED <<state, lock, made, file, crashed, memVer, myVer, tmpVer,
                   fileVer>>
    /\ UNCHANGED <<batchVars, sessVars>>

\* temp_file.replace(self.status_file): one rename.
Replace(th) ==
    /\ ~crashed
    /\ tpc[th] = "replace"
    /\ IF tmp = "absent"
       THEN UNCHANGED <<file, fileVer, tmp>>
       ELSE /\ file' = tmp
            /\ fileVer' = tmpVer
            /\ tmp' = "absent"
    /\ tpc' = [tpc EXCEPT ![th] = "write_unlock"]
    /\ UNCHANGED <<state, lock, made, wpos, crashed, memVer, myVer, tmpVer>>
    /\ UNCHANGED <<batchVars, sessVars>>

\* A _write that returns with the lock still held.
WriteUnlock_KeepsLock(th) ==
    /\ ~crashed
    /\ tpc[th] = "write_unlock"
    /\ tpc' = [tpc EXCEPT ![th] = "returned"]
    /\ UNCHANGED <<state, lock, made, tmp, file, wpos, crashed, memVer, myVer,
                   tmpVer, fileVer>>
    /\ UNCHANGED <<batchVars, sessVars>>

\* The end of _write's with block; the mutator returns.
WriteUnlock(th) ==
    /\ ~crashed
    /\ tpc[th] = "write_unlock"
    /\ lock' = IF lock = th THEN 0 ELSE lock
    /\ tpc' = [tpc EXCEPT ![th] = "returned"]
    /\ UNCHANGED <<state, made, tmp, file, wpos, crashed, memVer, myVer,
                   tmpVer, fileVer>>
    /\ UNCHANGED <<batchVars, sessVars>>

\* The process is killed while a snapshot is being written; the files stay
\* as they are.
Crash ==
    /\ ~crashed
    /\ \E th \in CallerThreads : tpc[th] \in {"open", "dump", "replace", "write_unlock"}
    /\ crashed' = TRUE
    /\ UNCHANGED <<state, lock, tpc, made, tmp, file, wpos, memVer, myVer,
                   tmpVer, fileVer>>
    /\ UNCHANGED <<batchVars, sessVars>>

NextTracker ==
    \/ \E th \in CallerThreads : MutateLocked(th)
    \/ \E th \in CallerThreads : Unlock(th)
    \/ \E th \in CallerThreads : WriteLock(th)
    \/ \E th \in CallerThreads : WriteOpen(th)
    \/ \E th \in CallerThreads : WriteChunk(th)
    \/ \E th \in CallerThreads : Replace(th)
    \/ \E th \in CallerThreads : WriteUnlock(th)
    \/ Crash

\* ------------------------------------------------- YouTubeAuditor: one session
MaxSeeds == 2        \* longest seed list given to Train
ErrAttempts == 2     \* err_attempts of the session under study

SeedIds == <<"s1", "s2", "s3", "s4">>
SeedLists == {SubSeq(SeedIds, 1, n) : n \in 1 .. MaxSeeds}
Modes == {"long", "short"}

\* max_duration: an int is seconds, a float a share of the video's length,
\* held here in hundredths (0.5 is 50).
IntBudget(n) == [kind |-> "int", val |-> n]
FloatBudget(p) == [kind |-> "float", val |-> p]
Budgets == {IntBudget(1), IntBudget(30), FloatBudget(1), FloatBudget(50), FloatBudget(100)}
NoBudget == [kind |-> "none", val |-> 0]
\* The budgets a session is initialized with.
SessionBudgets == {IntBudget(30), FloatBudget(50)}

\* Texts are sequences of characters.  str.lower() on the letters used here.
Lower(ch) ==
    CASE ch = "S" -> "s"
      [] ch = "I" -> "i"
      [] ch = "G" -> "g"
      [] ch = "N" -> "n"
      [] ch = "A" -> "a"
      [] OTHER -> ch

LowerText(s) == [i \in 1 .. Len(s) |-> Lower(s[i])]

\* sub in s
Contains(s, sub) ==
    \E i \in 0 .. (Len(s) - Len(sub)) : SubSeq(s, i + 1, i + Len(sub)) = sub

\* A test that compares the text as it is written.
IsSignInReason_CaseSensitive(reason) ==
    Contains(reason, <<"s", "i", "g", "n", " ", "i", "n">>)

\* "sign in" in reason.lower()
IsSignInReason(reason) ==
    Contains(LowerText(reason), <<"s", "i", "g", "n", " ", "i", "n">>)

\* reason = "unknown(error)" when the reason element cannot be read
UnknownReason == <<"u", "n", "k", "n", "o", "w", "n">>

\* What the reason element of a restricted video can say.
ReasonTexts ==
    { <<"S", "i", "g", "n", " ", "i", "n">>,
      <<"S", "I", "G", "N", " ", "I", "N">> }

\* YouTubeAuditor.__init__: the fields of the session.
NewSession ==
    [ initialized |-> FALSE,
      driver |-> "none",
      seed_ids |-> <<>>,
      path |-> <<>>,
      sidebars |-> <<>>,
      preloads |-> <<>>,
      restricted |-> <<>>,
      max_duration |-> NoBudget,
      mode |-> "none" ]

\* Run's local variables, and what the session has been through since InitDriver.
NewRun ==
    [ count |-> 0,             \* Run: count
      err_attempts |-> 0,      \* Run: err_attempts
      idx |-> 0,               \* Train: seeds watched so far
      result |-> "none",       \* what Run returned: "0", "-1", "raise"
      advances |-> 0,          \* advance gestures made
      iterations |-> 0,        \* iterations of Run's while loop entered
      indicator |-> FALSE,     \* a restriction indicator was visible
      seenReason |-> <<>>,     \* reason text read in the latest iteration
      seenAt |-> [advances |-> 0, hops |-> 0],
      terminal |-> <<>>,       \* collection_complete / collection_failed events emitted
      trail |-> <<>> ]         \* lifecycle states gone through

\* Report(): the dict it returns.
Report_DropsFirstSeed(a) ==
    [ training_ids |-> IF Len(a.seed_ids) > 1 THEN Tail(a.seed_ids) ELSE <<>>,
      seed_id |-> IF a.seed_ids # <<>> THEN a.seed_ids[1] ELSE "None",
      player_mode |-> a.mode,
      max_duration |-> a.max_duration,
      autoplay_rec |-> a.path,
      sidebar_rec |-> a.sidebars,
      preload_rec |-> a.preloads,
      restricted |-> a.restricted ]

Report(a) ==
    [ training_ids |-> IF Len(a.seed_ids) > 1
                       THEN SubSeq(a.seed_ids, 1, Len(a.seed_ids) - 1) ELSE <<>>,
      seed_id |-> IF a.seed_ids # <<>> THEN a.seed_ids[Len(a.seed_ids)] ELSE "None",
      player_mode |-> a.mode,
      max_duration |-> a.max_duration,
      autoplay_rec |-> a.path,
      sidebar_rec |-> a.sidebars,
      preload_rec |-> a.preloads,
      restricted |-> a.restricted ]

\* ---- the watch interval
\* What vid.get_attribute("duration") gives: a number of seconds as text, no
\* value, the empty text, "NaN" (no metadata yet), "Infinity" (a live stream),
\* text that is no number, or an adapter error.
Num(n) == [t |-> "num", v |-> n]
NaN == [t |-> "nan", v |-> 0]
Inf == [t |-> "inf", v |-> 0]
DurationSeconds == {0, 1, 29, 30, 31, 200}
DurationAttrs ==
    {Num(n) : n \in DurationSeconds}
    \cup {[t |-> x, v |-> 0] : x \in {"none", "empty", "nan", "inf", "garbage", "raise"}}
\* The durations met by a session: a length, no metadata yet, a live stream.
SessionAttrs == {Num(200), NaN, Inf}

\* int(x) of the float n / 100: towards zero.
Trunc100(n) == IF n >= 0 THEN n \div 100 ELSE -((-n) \div 100)

Max(a, b) == IF a > b THEN a ELSE b

\* float(vid.get_attribute("duration") or 180) inside try/except, then the
\* test for zero.  NaN equals nothing, itself included, so it passes the test.
VideoLen(attr) ==
    CASE attr.t = "num" -> IF attr.v = 0 THEN Num(180) ELSE attr
      [] attr.t = "nan" -> NaN
      [] attr.t = "inf" -> Inf
      [] OTHER -> Num(180)

Slept(w) == [out |-> "slept", wait |-> w]
Raised == [out |-> "raise", wait |-> 0]

\* wait_time from video_len and max_duration, then time.sleep(max(wait_time, 0)).
\* int(nan) and int(inf) raise; min(nan, b) - 1 is nan and time.sleep(nan) raises.
SleepFor(len, b) ==
    IF b.kind = "float"
    THEN IF len.t = "num" THEN Slept(Max(Trunc100(len.v * b.val), 0)) ELSE Raised
    ELSE CASE len.t = "num" -> Slept(Max(Min(len.v, b.val) - 1, 0))
           [] len.t = "inf" -> Slept(Max(b.val - 1, 0))
           [] OTHER -> Raised

\* watch(): asserts max_duration > 0 first.
WatchWait(attr, b) ==
    IF b.val > 0 THEN SleepFor(VideoLen(attr), b) ELSE Raised

\* Run(): reads the duration only when max_duration > 0, else waits 0.
RunWait(attr, b) ==
    IF b.val > 0 THEN SleepFor(VideoLen(attr), b) ELSE Slept(0)

\* ---- CleanUp
\* The adapter calls of CleanUp that can fail.
CleanUpSteps == {"tabs", "cookies", "history", "quit"}

\* YouTubeAuditor.CleanUp(kill) past its assertion: every adapter error is
\* caught; the driver is quit and dropped only when kill is set.
YouTubeAuditor_CleanUp(a, kill, errs) ==
    [a EXCEPT !.driver = IF kill THEN "none" ELSE @,
              !.initialized = FALSE]

\* SockPuppet.CleanUp(kill) past its assertion: a failure while clearing the
\* browser history returns from inside the handler; otherwise the driver is
\* quit and dropped whatever kill says.
SockPuppet_CleanUp(a, kill, errs) ==
    IF ~kill /\ "cookies" \notin errs /\ "history" \in errs
    THEN a
    ELSE [a EXCEPT !.driver = "none",
                   !.initialized = FALSE,
                   !.logged_in = IF ~kill /\ errs \cap {"cookies", "history"} = {}
                                 THEN FALSE ELSE @]

\* ---- one iteration of Run's while loop, as steps on
\*      h = [ya, run, out]; out: "go" | "retry" | "-1" | "raise"
AdvanceOutcomes == {"ok", "gesture_raise", "url_raise"}
ChangeOutcomes == {"ok", "timeout"}
IndicatorOutcomes == {"lookup_raise", "hidden", "visible", "visible_read_raise"}
RecOutcomes == {"some", "none"}

\* current_url = self.driver.current_url, then the mode's advance gesture.
Advance(h, adv) ==
    CASE adv = "url_raise" -> [h EXCEPT !.out = "raise"]
      [] adv = "gesture_raise" ->
            [h EXCEPT !.out = "-1",
                      !.run.terminal = Append(@, "collection_failed")]
      [] OTHER -> [h EXCEPT !.run.advances = @ + 1]

\* A timeout that also uses up a hop.
UrlChange_ConsumesHop(h, chg) ==
    IF chg = "timeout"
    THEN [h EXCEPT !.run.err_attempts = @ - 1, !.run.count = @ - 1, !.out = "retry"]
    ELSE h

\* WebDriverWait(...).until(EC.url_changes(current_url))
UrlChange(h, chg) ==
    IF chg = "timeout"
    THEN [h EXCEPT !.run.err_attempts = @ - 1, !.out = "retry"]
    ELSE h

\* current_url after the change: the videos are numbered as they come up.
CurrentUrl(h) == Len(h.ya.path) + 1

\* The age-restriction check of either mode.
CheckRestriction(h, ind, reason) ==
    IF ind = "visible"
    THEN [h EXCEPT !.ya.restricted = Append(@, [url |-> CurrentUrl(h), reason |-> reason]),
                   !.run.indicator = TRUE,
                   !.run.seenReason = reason,
                   !.run.seenAt = [advances |-> h.run.advances, hops |-> Len(h.ya.path)],
                   !.out = IF IsSignInReason(reason) THEN "-1" ELSE @]
    ELSE [h EXCEPT !.run.indicator = @ \/ (ind = "visible_read_raise"),
                   !.run.seenReason = <<>>]

\* A collection step that keeps only non-empty batches.
CollectRecs_SkipsEmpty(h, recs) ==
    LET batch == <<CurrentUrl(h)>>
    IN  IF recs = "none" THEN h
        ELSE IF h.ya.mode = "short"
             THEN [h EXCEPT !.ya.preloads = Append(@, batch)]
             ELSE [h EXCEPT !.ya.sidebars = Append(@, batch)]

\* GetPreloadRec / GetSidebar return a list, empty after err_attempts errors,
\* and the list is appended.
CollectRecs(h, recs) ==
    LET batch == IF recs = "some" THEN <<CurrentUrl(h)>> ELSE <<>>
    IN  IF h.ya.mode = "short"
        THEN [h EXCEPT !.ya.preloads = Append(@, batch)]
        ELSE [h EXCEPT !.ya.sidebars = Append(@, batch)]

\* A hop that is appended without using up a hop credit.
AppendPath_KeepsCount(h) ==
    [h EXCEPT !.ya.path = Append(@, CurrentUrl(h))]

\* self.path.append(current_url); count -= 1
AppendPath(h) ==
    [h EXCEPT !.ya.path = Append(@, CurrentUrl(h)), !.run.count = @ - 1]

\* The wait at the end of the iteration.
HopWait(h, attr) ==
    IF RunWait(attr, h.ya.max_duration).out = "raise"
    THEN [h EXCEPT !.out = "raise"]
    ELSE h

Hop(a, r, adv, chg, ind, reason, recs, attr) ==
    LET h0 == [ya |-> a, run |-> [r EXCEPT !.iterations = @ + 1], out |-> "go"]
        h1 == Advance(h0, adv)
        h2 == IF h1.out = "go" THEN UrlChange(h1, chg) ELSE h1
        h3 == IF h2.out = "go" THEN CheckRestriction(h2, ind, reason) ELSE h2
        h4 == IF h3.out = "go" THEN AppendPath(CollectRecs(h3, recs)) ELSE h3
    IN  IF h4.out = "go" THEN HopWait(h4, attr) ELSE h4

\* ---- the session's calls
NoReport == Report(NewSession)
Called(op, result, was_init) ==
    [op |-> op, ret |-> result, was_init |-> was_init, report |-> NoReport]

\* A call is in progress: Train between two seeds, or Run inside its loop.
InCall ==
    \/ yaPc = "Training" /\ run.idx < Len(ya.seed_ids)
    \/ yaPc = "Collecting"

SessionFrame == UNCHANGED <<state, batchVars, trackerVars, sp, wres, sideVars>>

\* The operations that open with an assertion on self.initialized.
GuardedOps == {"InitDriver", "Train", "watch", "Run"}

Rejected_OnlyUninitialized(op, a) ==
    op # "InitDriver" /\ ~a.initialized

\* `assert not self.initialized` in InitDriver, `assert self.initialized` in
\* Train, watch and Run: the call ends in AssertionError.
Rejected(op, a) ==
    IF op = "InitDriver" THEN a.initialized ELSE ~a.initialized

\* A call that its opening assertion rejects: nothing is assigned before it.
YaRejected ==
    /\ ~InCall
    /\ \E op \in GuardedOps :
        /\ Rejected(op, ya)
        /\ yaLast' = Called(op, "AssertionError", ya.initialized)
    /\ UNCHANGED <<ya, yaPc, run>>
    /\ SessionFrame

\* InitDriver(mode, max_duration) on a session that is not initialized.
YaInitDriver ==
    /\ ~InCall
    /\ ~Rejected("InitDriver", ya)
    /\ \E m \in Modes, b \in SessionBudgets, o \in InitOutcomes :
        /\ ya' = InitDriverResult(
                    [NewSession EXCEPT !.driver = ya.driver, !.mode = m,
                                       !.max_duration = b], o)
        /\ yaPc' = IF o = "ok" THEN "Ready" ELSE "Failed"
        /\ run' = [NewRun EXCEPT !.trail = IF o = "ok" THEN <<"Ready">> ELSE <<"Failed">>]
        /\ yaLast' = Called("InitDriver",
                            CASE o = "ok" -> "False" [] o = "timeout" -> "True"
                              [] OTHER -> "raise",
                            ya.initialized)
    /\ SessionFrame

\* Train(seed_ids) up to its loop.
YaTrain ==
    /\ yaPc = "Ready"
    /\ ~Rejected("Train", ya)
    /\ \E seeds \in SeedLists : ya' = [ya EXCEPT !.seed_ids = seeds]
    /\ yaPc' = "Training"
    /\ run' = [run EXCEPT !.idx = 0, !.trail = Append(@, "Training")]
    /\ yaLast' = Called("Train", "running", TRUE)
    /\ SessionFrame

\* watch(vid): the video plays; it never plays within err_attempts tries; the
\* wait for the address to show the video id times out, outside any try; or
\* another adapter call raises.
WatchOutcomes == {"ok", "not_playing", "open_timeout", "raise"}

\* One iteration of Train's loop: self.watch(vid).
YaWatch ==
    /\ yaPc = "Training"
    /\ run.idx < Len(ya.seed_ids)
    /\ \E o \in WatchOutcomes, attr \in SessionAttrs :
        LET w == WatchWait(attr, ya.max_duration)
            ends == IF o = "ok" /\ w.out = "slept" THEN "ok"
                    ELSE IF o = "not_playing" THEN "True"
                    ELSE IF o = "open_timeout" THEN "TimeoutException" ELSE "raise"
        IN  /\ run' = IF ends = "ok"
                      THEN [run EXCEPT !.idx = @ + 1]
                      ELSE [run EXCEPT !.trail = Append(@, "Failed")]
            /\ yaPc' = IF ends = "ok" THEN "Training" ELSE "Failed"
            /\ yaLast' = Called("Train",
                                IF ends # "ok" THEN ends
                                ELSE IF run.idx + 1 = Len(ya.seed_ids) THEN "False"
                                ELSE "running",
                                TRUE)
    /\ UNCHANGED ya
    /\ SessionFrame

\* Run(hops, watch_time) up to its loop.
YaRunStart ==
    /\ yaPc = "Training"
    /\ run.idx = Len(ya.seed_ids)
    /\ \E o \in {"ok", "raise"} :
        /\ yaPc' = IF o = "ok" THEN "Collecting" ELSE "Failed"
        /\ run' = [run EXCEPT !.count = Hops,
                              !.err_attempts = ErrAttempts,
                              !.result = IF o = "ok" THEN "none" ELSE "raise",
                              !.trail = Append(@, IF o = "ok" THEN "Collecting" ELSE "Failed")]
        /\ yaLast' = Called("Run", IF o = "ok" THEN "running" ELSE "raise", TRUE)
    /\ UNCHANGED ya
    /\ SessionFrame

\* while count > 0 and err_attempts > 0: one iteration.
YaHop ==
    /\ yaPc = "Collecting"
    /\ run.count > 0
    /\ run.err_attempts > 0
    /\ \E adv \in AdvanceOutcomes, chg \in ChangeOutcomes, ind \in IndicatorOutcomes,
          reason \in ReasonTexts \cup {UnknownReason}, recs \in RecOutcomes,
          attr \in SessionAttrs :
        LET h == Hop(ya, run, adv, chg, ind, reason, recs, attr)
            over == h.out \in {"-1", "raise"}
        IN  /\ ya' = h.ya
            /\ run' = IF over
                      THEN [h.run EXCEPT !.result = h.out, !.trail = Append(@, "Failed")]
                      ELSE h.run
            /\ yaPc' = IF over THEN "Failed" ELSE "Collecting"
            /\ yaLast' = Called("Run", IF over THEN h.out ELSE "running", TRUE)
    /\ SessionFrame

\* The loop is over: -1 when the error budget ran out, else 0.
YaRunEnd ==
    /\ yaPc = "Collecting"
    /\ ~(run.count > 0 /\ run.err_attempts > 0)
    /\ LET ok == ~(run.err_attempts <= 0)
       IN  /\ yaPc' = IF ok THEN "Complete" ELSE "Failed"
           /\ run' = [run EXCEPT !.result = IF ok THEN "0" ELSE "-1",
                                 !.terminal = Append(@, IF ok THEN "collection_complete"
                                                        ELSE "collection_failed"),
                                 !.trail = Append(@, IF ok THEN "Complete" ELSE "Failed")]
           /\ yaLast' = Called("Run", IF ok THEN "0" ELSE "-1", TRUE)
    /\ UNCHANGED ya
    /\ SessionFrame

\* A Report that hands its lists over and empties the session.
YaReport_Consumes ==
    /\ ~InCall
    /\ yaLast' = [op |-> "Report", ret |-> "dict", was_init |-> ya.initialized,
                  report |-> Report(ya)]
    /\ ya' = [ya EXCEPT !.path = <<>>, !.sidebars = <<>>, !.preloads = <<>>,
                        !.restricted = <<>>]
    /\ UNCHANGED <<yaPc, run>>
    /\ SessionFrame

\* Report()
YaReport ==
    /\ ~InCall
    /\ yaLast' = [op |-> "Report", ret |-> "dict", was_init |-> ya.initialized,
                  report |-> Report(ya)]
    /\ UNCHANGED <<ya, yaPc, run>>
    /\ SessionFrame

\* CleanUp(kill): `assert self.initialized`, then the teardown.
YaCleanUp ==
    /\ ~InCall
    /\ IF CleanUpRaises(ya)
       THEN /\ yaLast' = Called("CleanUp", "raise", FALSE)
            /\ UNCHANGED <<ya, yaPc>>
       ELSE /\ \E kill \in BOOLEAN, errs \in SUBSET CleanUpSteps :
                 ya' = YouTubeAuditor_CleanUp(ya, kill, errs)
            /\ yaPc' = "Uninitialized"
            /\ yaLast' = Called("CleanUp", "None", TRUE)
    /\ UNCHANGED run
    /\ SessionFrame

\* __del__ / __exit__: CleanUp() only when the session is initialized.
YaFinalize ==
    /\ ~InCall
    /\ IF ya.initialized
       THEN /\ ya' = YouTubeAuditor_CleanUp(ya, TRUE, {})
            /\ yaPc' = "Uninitialized"
       ELSE UNCHANGED <<ya, yaPc>>
    /\ yaLast' = Called("__del__", "None", ya.initialized)
    /\ UNCHANGED run
    /\ SessionFrame

\* ---- the legacy SockPuppet, as far as its teardown goes
NewPuppet ==
    [ initialized |-> FALSE,
      driver |-> "none",
      logged_in |-> FALSE,
      adblock |-> FALSE,       \* the constructor's adblock argument
      initRet |-> "none",      \* what the latest InitDriver returned
      last |-> "none",         \* the latest call and how it ended
      kill |-> TRUE,           \* that CleanUp's argument
      errs |-> {} ]            \* the adapter calls that failed in it

PuppetFrame == UNCHANGED <<state, batchVars, trackerVars, run, wres, sideVars>>

\* SockPuppet(adblock=b)
SpNew ==
    /\ \E b \in BOOLEAN : sp' = [NewPuppet EXCEPT !.adblock = b]
    /\ UNCHANGED <<ya, yaPc, yaLast>>
    /\ PuppetFrame

\* SockPuppet.InitDriver past its assertions: the browser is acquired, the
\* first window wait can time out (return True); without the ad blocker the
\* call returns False there; with it the tab wait can time out (return True),
\* and past it the flag is set and False returned.
SockPuppet_InitDriver(a, o) ==
    CASE o = "raise_before_acquire" -> [a EXCEPT !.initRet = "raise"]
      [] o = "raise_after_acquire" -> [a EXCEPT !.driver = "live", !.initRet = "raise"]
      [] o = "timeout" -> [a EXCEPT !.driver = "live", !.initRet = "True"]
      [] OTHER -> [a EXCEPT !.driver = "live", !.initRet = "False",
                            !.initialized = a.adblock]

\* SockPuppet.InitDriver(mode, max_duration) on a session that is not
\* initialized.
SpInitDriver ==
    /\ ~sp.initialized
    /\ \E o \in InitOutcomes :
        sp' = [SockPuppet_InitDriver(sp, o) EXCEPT !.last = "InitDriver"]
    /\ UNCHANGED <<ya, yaPc, yaLast>>
    /\ PuppetFrame

\* SockPuppet.LogIn succeeded.
SpLogIn ==
    /\ sp.initialized
    /\ ~sp.logged_in
    /\ sp' = [sp EXCEPT !.logged_in = TRUE, !.last = "LogIn"]
    /\ UNCHANGED <<ya, yaPc, yaLast>>
    /\ PuppetFrame

\* SockPuppet.CleanUp(kill)
SpCleanUp ==
    /\ \E kill \in BOOLEAN, errs \in SUBSET CleanUpSteps :
        IF ~sp.initialized
        THEN sp' = [sp EXCEPT !.last = "CleanUp raised", !.kill = kill, !.errs = {}]
        ELSE sp' = [SockPuppet_CleanUp(sp, kill, errs) EXCEPT
                       !.last = "CleanUp returned", !.kill = kill, !.errs = errs]
    /\ UNCHANGED <<ya, yaPc, yaLast>>
    /\ PuppetFrame

\* ---- the watch interval on its own: any duration attribute with any budget
WaitFrame == UNCHANGED <<state, batchVars, trackerVars, ya, yaPc, run, yaLast, sp,
                        sideVars>>

NoWait == [site |-> "none", attr |-> Num(0), budget |-> NoBudget, res |-> Slept(0)]

\* watch(video_id, max_duration=b) from its duration read to its sleep.
WatchSleeps ==
    /\ \E attr \in DurationAttrs, b \in Budgets :
        wres' = [site |-> "watch", attr |-> attr, budget |-> b,
                 res |-> WatchWait(attr, b)]
    /\ WaitFrame

\* Run(hops, max_duration=b): the wait that ends an iteration.
RunSleeps ==
    /\ \E attr \in DurationAttrs, b \in Budgets \cup {IntBudget(0), FloatBudget(0)} :
        wres' = [site |-> "Run", attr |-> attr, budget |-> b,
                 res |-> RunWait(attr, b)]
    /\ WaitFrame

NextSession ==
    \/ YaInitDriver
    \/ YaTrain
    \/ YaWatch
    \/ YaRunStart
    \/ YaHop
    \/ YaRunEnd
    \/ YaReport
    \/ YaCleanUp
    \/ YaFinalize

\* Sessions of both classes set up and torn down, nothing run in between.
NextTeardown ==
    \/ YaInitDriver
    \/ YaCleanUp
    \/ YaFinalize
    \/ SpNew
    \/ SpInitDriver
    \/ SpLogIn
    \/ SpCleanUp

NextWait == WatchSleeps \/ RunSleeps

\* A session driven through its operations in any order, the calls its
\* assertions reject included.
NextLifecycle ==
    \/ YaInitDriver
    \/ YaTrain
    \/ YaWatch
    \/ YaRunStart
    \/ YaHop
    \/ YaRunEnd
    \/ YaReport
    \/ YaCleanUp
    \/ YaFinalize
    \/ YaRejected

InitSession ==
    /\ ya = NewSession
    /\ yaPc = "Uninitialized"
    /\ run = NewRun
    /\ yaLast = Called("__init__", "None", FALSE)
    /\ sp = NewPuppet
    /\ wres = NoWait

\* ------------------------------------------------- StatusTracker.get_state
\* The dict of self.state each field of the model lives in; "top" is
\* self.state itself.
DictOf(f) ==
    CASE f = "status" -> "top"
      [] f \in {"total_tasks", "completed_tasks", "failed_tasks",
                "current_task_index"} -> "batch_progress"
      [] f = "current_tasks" -> "current_tasks"
      [] f \in HealthMetrics -> "health"
      [] OTHER -> "data_collected"

NestedFields == {f \in DOMAIN InitialState : DictOf(f) # "top"}

\* No dict has been handed out.
NoSnapshot ==
    [taken |-> FALSE, at |-> InitialState, own |-> InitialState, shared |-> {},
     tracker |-> InitialState]

\* What the caller reads in the dict it holds: a field whose dict is still
\* the tracker's own object shows the tracker's value.
SnapValue ==
    [f \in DOMAIN InitialState |-> IF f \in snap.shared THEN state[f] ELSE snap.own[f]]

SnapshotFrame ==
    UNCHANGED <<batchVars, lock, tpc, tmp, wpos, crashed, myVer, tmpVer,
                ya, yaPc, run, yaLast, sp, wres, rec, store, lt, pr>>

\* get_state():  with self.lock: return self.state.copy()
get_state ==
    /\ ~snap.taken
    /\ snap' = [taken |-> TRUE, at |-> state, own |-> state, shared |-> NestedFields,
                tracker |-> state]
    /\ UNCHANGED <<state, made, file, memVer, fileVer>>
    /\ SnapshotFrame

\* One mutator call from start to return, made while no other thread is in
\* the tracker: the change under the lock, then _write().
MutatorCall ==
    /\ made < MaxMutations
    /\ \E th \in CallerThreads : \E c \in CallsOf(th) :
          /\ state' = Mutate(state, c)
          /\ snap' = IF c.op = "update_current_task"
                     THEN [snap EXCEPT !.shared = @ \ {"current_tasks"},
                                       !.own = SnapValue,
                                       !.tracker = Mutate(@, c)]
                     ELSE [snap EXCEPT !.tracker = Mutate(@, c)]
    /\ made' = made + 1
    /\ memVer' = memVer + 1
    /\ file' = Serialize(state')
    /\ fileVer' = memVer + 1
    /\ SnapshotFrame

\* What the holder of the dict can store into it.
CallerValue(f) ==
    CASE f = "status" -> "edited"
      [] f = "current_tasks" -> <<>>
      [] OTHER -> 99

\* The caller assigns to a key of the dict it was handed, or to a key of
\* one of the dicts inside it.
CallerWrites ==
    /\ snap.taken
    /\ \E f \in {"status", "completed_tasks", "retries"} :
          /\ snap.at[f] # CallerValue(f)
          /\ state' = IF f \in snap.shared
                      THEN [state EXCEPT ![f] = CallerValue(f)]
                      ELSE state
          /\ snap' = [snap EXCEPT !.own[f] = CallerValue(f),
                                  !.at[f] = CallerValue(f)]
    /\ UNCHANGED <<made, file, memVer, fileVer>>
    /\ SnapshotFrame

NextSnapshot == get_state \/ MutatorCall \/ CallerWrites

\* ------------------------------------------------- StatusTracker.load_existing
\* A tracker just constructed: its state is the initial dict, nothing loaded.
NewTracker == [called |-> FALSE, result |-> FALSE, state |-> InitialState, ver |-> 0]

\* The first tracker's process is over: it was killed, or its threads made
\* all their calls and returned.
AtRest ==
    \/ crashed
    \/ made = MaxMutations /\ \A th \in CallerThreads : tpc[th] \in {"idle", "returned"}

\* A load_existing that reads the temporary file.
load_existing_ReadsTemp ==
    /\ ~rec.called
    /\ AtRest
    /\ rec' = IF tmp # "absent"
              THEN [called |-> TRUE, result |-> TRUE, state |-> Parse(tmp),
                    ver |-> tmpVer]
              ELSE [rec EXCEPT !.called = TRUE]
    /\ UNCHANGED <<state, batchVars, trackerVars, ya, yaPc, run, yaLast, sp, wres,
                   snap, store, lt, pr>>

\* load_existing() on the second tracker:
\*   if self.status_file.exists(): self.state = json.load(f); return True
\*   return False
load_existing ==
    /\ ~rec.called
    /\ AtRest
    /\ rec' = IF file # "absent"
              THEN [called |-> TRUE, result |-> TRUE, state |-> Parse(file),
                    ver |-> fileVer]
              ELSE [rec EXCEPT !.called = TRUE]
    /\ UNCHANGED <<state, batchVars, trackerVars, ya, yaPc, run, yaLast, sp, wres,
                   snap, store, lt, pr>>

\* The first tracker at work until its process is over, then the second one
\* loading.
NextRecover == NextTracker \/ load_existing

\* ------------------------------------------------- result stores
\* The backends of one CompositeStorage, in configured order, each a
\* FileStorage with a results directory of its own.
Backends == <<"local", "mirror">>
BackendIds == 1 .. Len(Backends)
TaskIds == {"task_0000", "task_0001"}

PyNone == [none |-> TRUE]

\* Reports of two sessions, as Report() builds them.
Reports ==
    { Report([NewSession EXCEPT !.seed_ids = SubSeq(SeedIds, 1, 1), !.mode = "short"]),
      Report([NewSession EXCEPT !.seed_ids = SubSeq(SeedIds, 1, 2), !.mode = "long",
                                !.path = <<1>>, !.sidebars = << <<>> >>]) }
Metadatas == {PyNone, [experiment_id |-> "e", task_index |-> 0]}

\* json.dump(output, f): the keys of output in the order they were set.
DumpResult(task_id, result, metadata) ==
    << <<"task_id", task_id>>, <<"result", result>> >>
    \o (IF metadata # PyNone THEN << <<"metadata", metadata>> >> ELSE <<>>)

\* FileStorage.save_result: open(output_file, 'w') and dump.
FileStorage_save_result(dir, task_id, result, metadata) ==
    [dir EXCEPT ![task_id] = DumpResult(task_id, result, metadata)]

\* A load_result that hands back everything the file holds.
FileStorage_load_result_WholeFile(dir, task_id) ==
    IF dir[task_id] = <<>> THEN PyNone ELSE Parse(dir[task_id])

\* FileStorage.load_result: None without the file, else data.get("result").
FileStorage_load_result(dir, task_id) ==
    IF dir[task_id] = <<>>
    THEN PyNone
    ELSE LET data == Parse(dir[task_id])
         IN  IF "result" \in DOMAIN data THEN data.result ELSE PyNone

\* A lookup that asks the first backend only.
CompositeStorage_load_result_FirstOnly(dirs, task_id) ==
    FileStorage_load_result(dirs[1], task_id)

\* CompositeStorage.load_result: the first backend that returns a value.
CompositeStorage_load_result(dirs, task_id) ==
    LET have == {b \in BackendIds : FileStorage_load_result(dirs[b], task_id) # PyNone}
    IN  IF have = {} THEN PyNone
        ELSE FileStorage_load_result(dirs[CHOOSE b \in have : \A c \in have : b <= c],
                                     task_id)

\* No result file anywhere (a file is never empty once written), nothing
\* saved, no call made.
NewStore ==
    [ dirs |-> [b \in BackendIds |-> [i \in TaskIds |-> <<>>]],
      saved |-> [b \in BackendIds |-> [i \in TaskIds |-> PyNone]],
      last |-> [op |-> "none", backend |-> 0, id |-> "none", arg |-> PyNone,
                result |-> PyNone, returned |-> TRUE] ]

StoreFrame ==
    UNCHANGED <<state, batchVars, trackerVars, ya, yaPc, run, yaLast, sp, wres,
                snap, rec, lt, pr>>

\* save_result on one backend.
FsSave ==
    /\ \E b \in BackendIds, i \in TaskIds, r \in Reports, m \in Metadatas :
          store' = [ dirs |-> [store.dirs EXCEPT ![b] =
                                  FileStorage_save_result(@, i, r, m)],
                     saved |-> [store.saved EXCEPT ![b][i] = r],
                     last |-> [op |-> "save_result", backend |-> b, id |-> i,
                               arg |-> r, result |-> PyNone, returned |-> TRUE] ]
    /\ StoreFrame

\* load_result on one backend.
FsLoad ==
    /\ \E b \in BackendIds, i \in TaskIds :
          store' = [store EXCEPT !.last =
                      [op |-> "load_result", backend |-> b, id |-> i, arg |-> PyNone,
                       result |-> FileStorage_load_result(store.dirs[b], i),
                       returned |-> TRUE]]
    /\ StoreFrame

\* CompositeStorage.save_result: for backend in self.backends: save.  The
\* backends before number `stop` are written; the one at `stop`, if any,
\* raises, and the exception leaves the loop.
CsSave ==
    /\ \E i \in TaskIds, r \in Reports, stop \in BackendIds \cup {Len(Backends) + 1} :
          LET m == CHOOSE md \in Metadatas : md # PyNone
              written == {b \in BackendIds : b < stop}
          IN  store' =
                [ dirs |-> [b \in BackendIds |->
                              IF b \in written
                              THEN FileStorage_save_result(store.dirs[b], i, r, m)
                              ELSE store.dirs[b]],
                  saved |-> [b \in BackendIds |->
                               IF b \in written
                               THEN [store.saved[b] EXCEPT ![i] = r]
                               ELSE store.saved[b]],
                  last |-> [op |-> "composite_save", backend |-> 0, id |-> i,
                            arg |-> r, result |-> PyNone,
                            returned |-> (stop > Len(Backends))] ]
    /\ StoreFrame

\* CompositeStorage.load_result.
CsLoad ==
    /\ \E i \in TaskIds :
          store' = [store EXCEPT !.last =
                      [op |-> "composite_load", backend |-> 0, id |-> i, arg |-> PyNone,
                       result |-> CompositeStorage_load_result(store.dirs, i),
                       returned |-> TRUE]]
    /\ StoreFrame

NextStore == FsSave \/ FsLoad \/ CsSave \/ CsLoad

\* ------------------------------------------------- the legacy runner
\* A Python bool compared with an int counts as 1 or 0.
PyBool(b) == IF b THEN 1 ELSE 0

\* task(arg) before its first statement.
NewTask ==
    [ pc |-> "start", ids |-> <<>>, mode |-> "none", hops |-> 0,
      initialized |-> FALSE,
      watched |-> <<>>,        \* seeds handed to watch(), in call order
      failed |-> FALSE,        \* a watch() returned True
      trainRet |-> "none",     \* what Train gave back: 1, 0 or "raise"
      runCalls |-> 0,          \* calls of puppet.Run
      count |-> 0,             \* Run: count
      err_attempts |-> 0,      \* Run: err_attempts
      path |-> <<>>,           \* the puppet's lists
      sidebars |-> <<>>,
      preloads |-> <<>>,
      result |-> "none" ]      \* what task returns

\* SockPuppet.Train(seed_ids) when the watch of seed number k fails (k = 0:
\* none fails): the seeds watched, and the return value.
SockPuppet_Train(ids, k) ==
    [ watched |-> SubSeq(ids, 1, IF k = 0 THEN Len(ids) ELSE k),
      ret |-> k # 0 ]

LegacyFrame ==
    UNCHANGED <<state, batchVars, trackerVars, ya, yaPc, run, yaLast, sp, wres,
                snap, rec, store, pr>>

\* ids, watch_time, mode, hops = arg; puppet = SockPuppet(...);
\* puppet.InitDriver(mode, watch_time), its return value not looked at.
LtInitDriver ==
    /\ lt.pc = "start"
    /\ \E ids \in SeedLists, mode \in Modes, hops \in 1 .. Hops, ok \in BOOLEAN :
          lt' = [lt EXCEPT !.pc = "train", !.ids = ids, !.mode = mode,
                           !.hops = hops, !.initialized = ok]
    /\ LegacyFrame

\* if puppet.Train(ids) == -1: puppet.CleanUp(kill=True); return None
LtTrain ==
    /\ lt.pc = "train"
    /\ IF ~lt.initialized
       THEN lt' = [lt EXCEPT !.pc = "cleanup", !.trainRet = "raise",
                             !.result = "None"]
       ELSE \E k \in 0 .. Len(lt.ids) :
              LET t == SockPuppet_Train(lt.ids, k)
              IN  lt' = IF PyBool(t.ret) = -1
                        THEN [lt EXCEPT !.pc = "done", !.watched = t.watched,
                                        !.failed = t.ret, !.trainRet = PyBool(t.ret),
                                        !.initialized = FALSE, !.result = "None"]
                        ELSE [lt EXCEPT !.pc = "run", !.watched = t.watched,
                                        !.failed = t.ret, !.trainRet = PyBool(t.ret)]
    /\ LegacyFrame

\* A list of n recommendations.
PyList(n) == [list |-> [i \in 1 .. n |-> "rec"]]

\* What the page shows to an extraction, the same at each of its attempts:
\* the lookup raises, or it finds no element, or one.
FoundOutcomes == {"raise", "none", "one"}
Found(found) == IF found = "one" THEN 1 ELSE 0

\* SockPuppet.GetSidebar: the links of the first attempt that does not raise;
\* the function ends without a return statement when every attempt raised.
SockPuppet_GetSidebar(found) ==
    IF found = "raise" THEN PyNone ELSE PyList(Found(found))

\* SockPuppet.GetPreloadRec: __prefix inside the class body is the name
\* _SockPuppet__prefix, which nothing defines, so an attempt that found an
\* element raises NameError like one whose lookup raised; after the last
\* attempt the function ends without a return statement.
SockPuppet_GetPreloadRec(found) ==
    IF found = "none" THEN PyList(Found(found)) ELSE PyNone

\* puppet.Run(hops) up to its loop.
LtRun ==
    /\ lt.pc = "run"
    /\ lt' = [lt EXCEPT !.pc = "collect", !.runCalls = @ + 1, !.count = lt.hops,
                        !.err_attempts = ErrAttempts]
    /\ LegacyFrame

\* One iteration of SockPuppet.Run's loop: the gesture, the wait for the
\* address to change, the restriction check, the mode's extraction appended
\* to its list, the path entry, the wait.
LtHop ==
    /\ lt.pc = "collect"
    /\ lt.count > 0
    /\ lt.err_attempts > 0
    /\ \E o \in {"hop", "timeout", "stop", "raise"}, found \in FoundOutcomes :
          lt' = CASE o = "timeout" -> [lt EXCEPT !.err_attempts = @ - 1]
                  [] o = "stop" -> [lt EXCEPT !.pc = "cleanup", !.result = "report"]
                  [] o = "raise" -> [lt EXCEPT !.pc = "cleanup", !.result = "None"]
                  [] OTHER ->
                       [lt EXCEPT
                          !.preloads = IF lt.mode = "short"
                                       THEN Append(@, SockPuppet_GetPreloadRec(found))
                                       ELSE @,
                          !.sidebars = IF lt.mode = "long"
                                       THEN Append(@, SockPuppet_GetSidebar(found))
                                       ELSE @,
                          !.path = Append(@, Len(@) + 1),
                          !.count = @ - 1]
    /\ LegacyFrame

\* The loop is over; result = puppet.Report()
LtReport ==
    /\ lt.pc = "collect"
    /\ ~(lt.count > 0 /\ lt.err_attempts > 0)
    /\ lt' = [lt EXCEPT !.pc = "cleanup", !.result = "report"]
    /\ LegacyFrame

\* puppet.CleanUp(kill=True), which asserts that the puppet is initialized,
\* then the pause and return result.
LtCleanUp ==
    /\ lt.pc = "cleanup"
    /\ lt' = [lt EXCEPT !.pc = "done", !.initialized = FALSE,
                        !.result = IF lt.initialized THEN @ ELSE "raise"]
    /\ LegacyFrame

NextLegacy == LtInitDriver \/ LtTrain \/ LtRun \/ LtHop \/ LtReport \/ LtCleanUp

\* ---- the legacy pair runner: main(batch, trained, exp_name, input_json)
Pairs == 2        \* pairs in the input file
MaxRounds == 3    \* iterations of main's while loop looked at

\* What task(arg) hands to pool.map: the dict of Report(), whose autoplay_rec
\* is the session's path (empty when no hop was collected), None, or an
\* exception that leaves task.
TaskResults ==
    {[kind |-> "dict", autoplay_rec |-> p] : p \in {<<>>, <<1>>}}
        \cup {[kind |-> "None", autoplay_rec |-> <<>>],
              [kind |-> "raise", autoplay_rec |-> <<>>]}

\* output_firebase(num, long_result, short_result, exp_name) on the database
\* d: long_result.get / short_result.get fail on None; a dict of Report() has
\* its recommendations and its autoplay_rec; db.reference(exp_name).update
\* stores the two results under num unless it raises; PROCESSOR_SERVER is 0,
\* so the function returns there.
output_firebase(d, num, long_result, short_result, upd) ==
    IF long_result.kind = "None" \/ short_result.kind = "None"
    THEN [db |-> d, out |-> "AttributeError"]
    ELSE IF upd = "raise"
    THEN [db |-> d, out |-> "raise"]
    ELSE [db |-> [n \in DOMAIN d \cup {num} |->
                     IF n = num THEN <<long_result, short_result>> ELSE d[n]],
          out |-> "None"]

NewMain ==
    [ pc |-> "loop",
      m |-> 0,                 \* main: m, the pair in hand
      index |-> 0,             \* main: index, the rounds made
      results |-> <<>>,        \* what the two tasks of the latest round gave
      db |-> <<>> ]            \* the database under exp_name, by num

PairFrame ==
    UNCHANGED <<state, batchVars, trackerVars, ya, yaPc, run, yaLast, sp, wres,
                snap, rec, store, lt>>

\* One iteration of `while m < len(pairs)`: results = pool.map(task, ...),
\* outside the try statement; then output_firebase and m += 1 inside it, any
\* Exception caught; index += 1.
PrRound ==
    /\ pr.pc = "loop"
    /\ pr.m < Pairs
    /\ pr.index < MaxRounds
    /\ \E l \in TaskResults, s \in TaskResults, upd \in {"ok", "raise"} :
        IF l.kind = "raise" \/ s.kind = "raise"
        THEN pr' = [pr EXCEPT !.pc = "raised", !.results = <<l, s>>]
        ELSE LET o == output_firebase(pr.db, pr.index, l, s, upd)
             IN  pr' = [pr EXCEPT !.db = o.db,
                                  !.m = IF o.out = "None" THEN @ + 1 ELSE @,
                                  !.index = @ + 1,
                                  !.results = <<l, s>>]
    /\ PairFrame

\* The loop is over: print("finished").
PrFinish ==
    /\ pr.pc = "loop"
    /\ pr.m >= Pairs
    /\ pr' = [pr EXCEPT !.pc = "finished"]
    /\ PairFrame

NextPairs == PrRound \/ PrFinish

InitSide ==
    /\ snap = NoSnapshot
    /\ rec = NewTracker
    /\ store = NewStore
    /\ lt = NewTask
    /\ pr = NewMain

\* ------------------------------------------------- specification
InitBatch ==
    /\ mainPc = "start"
    /\ batchStart = 0
    /\ queue = <<>>
    /\ fut = [t \in Tasks |-> "none"]
    /\ collected = [t \in Tasks |-> FALSE]
    /\ slept = 0
    /\ pc = [t \in Tasks |-> "idle"]
    /\ attempt = [t \in Tasks |-> 0]
    /\ sess = [t \in Tasks |-> NewAuditor]
    /\ ret = [t \in Tasks |-> "none"]
    /\ incCompletedCalls = [t \in Tasks |-> 0]
    /\ incFailedCalls = [t \in Tasks |-> 0]
    /\ saveCalls = [t \in Tasks |-> 0]
    /\ stored = {}
    /\ cleanupCalls = [t \in Tasks |-> 0]
    /\ everComplete = [t \in Tasks |-> FALSE]

\* StatusTracker.__init__: the state exists in memory only, no file is written.
InitTracker ==
    /\ state = InitialState
    /\ lock = 0
    /\ tpc = [th \in CallerThreads |-> "idle"]
    /\ made = 0
    /\ tmp = "absent"
    /\ file = "absent"
    /\ wpos = [th \in CallerThreads |-> 0]
    /\ crashed = FALSE
    /\ memVer = 0
    /\ myVer = [th \in CallerThreads |-> 0]
    /\ tmpVer = 0
    /\ fileVer = 0

Init == InitBatch /\ InitTracker /\ InitSession /\ InitSide

Next ==
    \/ RunStart
    \/ SubmitWave
    \/ \E t \in Tasks : CollectResult(t)
    \/ WaveDone
    \/ BatchSleep
    \/ RunComplete
    \/ \E t \in Tasks : StartTask(t)
    \/ \E t \in Tasks : BeginAttempt(t)
    \/ \E t \in Tasks : RetriesExhausted(t)
    \/ \E t \in Tasks : SetFuture(t)
    \/ \E t \in Tasks : Train(t)
    \/ \E t \in Tasks : Run(t)

vars == <<state, batchVars, trackerVars, sessVars>>

Spec == Init /\ [][Next]_vars

\* The main thread and the pool's threads keep running, and every session
\* call comes back.
SpecFair == Spec /\ WF_vars(Next)

SpecTracker == Init /\ [][NextTracker]_vars

SpecSession == Init /\ [][NextSession]_vars

SpecTeardown == Init /\ [][NextTeardown]_vars

SpecLifecycle == Init /\ [][NextLifecycle]_vars

SpecWait == Init /\ [][NextWait]_vars

SpecSnapshot == Init /\ [][NextSnapshot]_vars

SpecRecover == Init /\ [][NextRecover]_vars

SpecStore == Init /\ [][NextStore]_vars

SpecLegacy == Init /\ [][NextLegacy]_vars

SpecPairs == Init /\ [][NextPairs]_vars

\* ======================================================== claims

\* An attempt of task t is over: _execute_task returned None into the retry
\* loop, or the work item ended.
AttemptOver(t) == (pc[t] = "loop" /\ attempt[t] > 0) \/ pc[t] = "returned"

\* C1: a task whose session reached Complete (Run returned 0) is never
\* attempted again, its report is handed to save_result when its future is
\* collected, and save_result is never called a second time for its task id:
\* when run() has returned, save_result was called exactly once for it.
C1_SavedExactlyOnce ==
    \A t \in Tasks :
        /\ saveCalls[t] <= 1
        /\ everComplete[t] => pc[t] \in {"returned", "done"}
        /\ (everComplete[t] /\ pc[t] = "returned") => ret[t] = "result"
        /\ (everComplete[t] /\ collected[t]) => saveCalls[t] = 1
        /\ (everComplete[t] /\ mainPc = "done") => saveCalls[t] = 1

\* C1 witness: run() has returned and a task that completed on a retry, after
\* a failed attempt, had its report saved once.
C1_Witness ==
    /\ mainPc = "done"
    /\ \E t \in Tasks :
         everComplete[t] /\ incFailedCalls[t] > 0 /\ saveCalls[t] = 1

\* C2 (as claimed): a task that ends with a report had increment_completed
\* called once and increment_failed never, over all its attempts.
C2_CountersOncePerSuccess ==
    \A t \in Tasks :
        (pc[t] = "returned" /\ ret[t] = "result")
            => (incCompletedCalls[t] = 1 /\ incFailedCalls[t] = 0)

\* C3 (as claimed): a task whose MaxRetries attempts all failed had
\* increment_failed called exactly once.
C3_FailedOnceOnExhaustion ==
    \A t \in Tasks :
        (pc[t] = "returned" /\ ret[t] = "none" /\ attempt[t] = MaxRetries)
            => incFailedCalls[t] = 1

\* C4: save_result is never called for a task none of whose attempts reached
\* Complete; in particular not for a task whose future ended with None or
\* with an exception.
C4_NoReportForAbandoned ==
    \A t \in Tasks :
        /\ ~everComplete[t] => (saveCalls[t] = 0 /\ t \notin stored)
        /\ fut[t] \in {"none_result", "exception"} => saveCalls[t] = 0

\* C4 witness: a task was abandoned after attempts that had started their
\* sessions (each counted a failure), its future was collected, nothing saved.
C4_Witness ==
    \E t \in Tasks :
        /\ fut[t] = "none_result"
        /\ collected[t]
        /\ incFailedCalls[t] = MaxRetries
        /\ saveCalls[t] = 0

\* C5 (as claimed): a work item ends without a report only when MaxRetries
\* attempts were made, and never more than MaxRetries attempts are made.
\* attempt[t] counts the attempts that returned None; an attempt that ended in
\* an exception is one more.
C5_RetriedUntilExhausted ==
    \A t \in Tasks :
        /\ attempt[t] <= MaxRetries
        /\ (pc[t] = "returned" /\ ret[t] = "none") => attempt[t] = MaxRetries
        /\ (pc[t] = "returned" /\ ret[t] = "raise") => attempt[t] + 1 = MaxRetries

\* C6 (as claimed): when an attempt is over, CleanUp was invoked exactly once
\* on its session.
C6_CleanUpExactlyOnce ==
    \A t \in Tasks : AttemptOver(t) => cleanupCalls[t] = 1

\* C7 (as claimed): when an attempt is over, its session holds no live adapter.
C7_AdapterReleased ==
    \A t \in Tasks : AttemptOver(t) => sess[t].driver # "live"

\* A complete dump: every field, in order, and it parses back to itself.
IsCompleteDump(f) ==
    /\ f # "absent"
    /\ Len(f) = Len(FieldOrder)
    /\ \A i \in 1 .. Len(f) : f[i][1] = FieldOrder[i]
    /\ Serialize(Parse(f)) = f

Writers == {th \in CallerThreads : tpc[th] \in {"open", "dump", "replace"}}

\* C8: status.json is absent or a complete dump at every instant, also after a
\* crash inside a write; at most one thread is writing status.tmp, and what is
\* renamed over status.json is the dump of the state as it is then.
C8_NoTornSnapshot ==
    /\ file = "absent" \/ IsCompleteDump(file)
    /\ Cardinality(Writers) <= 1
    /\ \A th \in CallerThreads : tpc[th] = "replace" => tmp = Serialize(state)

\* C8 witness: the process was killed with status.tmp partly written, a
\* complete earlier snapshot at status.json and another thread waiting to write.
C8_Witness ==
    /\ crashed
    /\ tmp # "absent" /\ Len(tmp) > 0 /\ Len(tmp) < Len(FieldOrder)
    /\ IsCompleteDump(file)
    /\ \E th \in CallerThreads : tpc[th] = "write"

\* C9 (as claimed): whenever the lock is free and some mutation was made,
\* status.json holds the in-memory state.
C9_FlushedWhenLockFree ==
    (lock = 0 /\ memVer > 0) => (IsCompleteDump(file) /\ Parse(file) = state)

\* C10: when a mutator has returned to its caller, status.json holds a dump
\* taken at or after that call's mutation; a dump as recent as the memory
\* state equals it.
C10_ReturnedMeansDurable ==
    /\ \A th \in CallerThreads :
          tpc[th] = "returned" => (IsCompleteDump(file) /\ fileVer >= myVer[th])
    /\ (file # "absent" /\ fileVer = memVer) => Parse(file) = state

\* C10 witness: a thread's increment_failed has returned and is in status.json
\* while another thread's later mutation is in memory only.
C10_Witness ==
    \E th \in CallerThreads :
        /\ tpc[th] = "returned"
        /\ fileVer = myVer[th]
        /\ memVer > fileVer
        /\ IsCompleteDump(file)
        /\ Parse(file).failed_tasks = 1
        /\ Parse(file) # state

\* The text holds the words "sign in", in whatever letter case.
SaysSignIn(text) ==
    \E i \in 1 .. (Len(text) - 6) :
        /\ Lower(text[i]) = "s" /\ Lower(text[i + 1]) = "i"
        /\ Lower(text[i + 2]) = "g" /\ Lower(text[i + 3]) = "n"
        /\ text[i + 4] = " "
        /\ Lower(text[i + 5]) = "i" /\ Lower(text[i + 6]) = "n"

\* C11: once Run has read a restriction reason that says "sign in", the
\* (address, reason) pair is the last restricted record, Run has returned -1,
\* and neither an advance gesture nor a hop was made after the reason was read.
C11_SignInEndsRun ==
    SaysSignIn(run.seenReason) =>
        /\ yaPc \in {"Failed", "Uninitialized"}
        /\ run.result = "-1"
        /\ ya.restricted # <<>>
        /\ ya.restricted[Len(ya.restricted)]
              = [url |-> run.seenAt.hops + 1, reason |-> run.seenReason]
        /\ run.advances = run.seenAt.advances
        /\ Len(ya.path) = run.seenAt.hops

\* C11 witness: after one completed hop a reason in capitals, "SIGN IN", was
\* read and Run returned -1.
C11_Witness ==
    /\ run.seenReason = <<"S", "I", "G", "N", " ", "I", "N">>
    /\ Len(ya.path) = 1
    /\ Len(ya.restricted) = 1
    /\ run.result = "-1"

\* Hops completed by the latest Run: what its counter has come down by.
HopsDone ==
    IF \E i \in 1 .. Len(run.trail) : run.trail[i] = "Collecting"
    THEN Hops - run.count
    ELSE 0

\* C12: a session whose Run ended normally went Ready, Training, Collecting,
\* Complete; Run returned 0; its report holds exactly Hops path entries, in
\* long mode exactly Hops sidebar batches, and no restricted record when no
\* restriction indicator ever appeared.
C12_NormalEnd ==
    yaPc = "Complete" =>
        /\ run.result = "0"
        /\ run.trail = <<"Ready", "Training", "Collecting", "Complete">>
        /\ Len(Report(ya).autoplay_rec) = Hops
        /\ ya.mode = "long" => Len(Report(ya).sidebar_rec) = Hops
        /\ ~run.indicator => Report(ya).restricted = <<>>

\* C12 witness: a long-mode Run ended normally after a URL-change timeout,
\* with one sidebar batch that came back empty and no restriction seen.
C12_Witness ==
    /\ yaPc = "Complete"
    /\ ya.mode = "long"
    /\ run.err_attempts < ErrAttempts
    /\ \E i \in 1 .. Len(ya.sidebars) : ya.sidebars[i] = <<>>
    /\ ~run.indicator

\* C13: Report() on a failed session returns the addresses of the completed
\* hops, in order and no others, all seeds but the last as training ids and
\* the last seed as seed id.
C13_PartialReport ==
    (yaLast.op = "Report" /\ yaPc = "Failed" /\ ya.seed_ids # <<>>) =>
        /\ yaLast.report.autoplay_rec = [i \in 1 .. HopsDone |-> i]
        /\ yaLast.report.training_ids \o <<yaLast.report.seed_id>> = ya.seed_ids

\* C13 witness: Report() after a Run that returned -1 with one hop completed,
\* on a session trained with two seeds.
C13_Witness ==
    /\ yaLast.op = "Report"
    /\ yaPc = "Failed"
    /\ run.result = "-1"
    /\ HopsDone = 1
    /\ HopsDone < Hops
    /\ Len(yaLast.report.training_ids) = 1

\* C18: a step that is a Report() call changes no field of the session, its
\* lifecycle state included; the report holds the data collected so far, and
\* a Report() right after another returns an equal report.
C18_ReportIsPureRead ==
    [][ yaLast'.op = "Report" =>
          /\ ya' = ya
          /\ yaPc' = yaPc
          /\ run' = run
          /\ yaLast'.report.autoplay_rec = ya.path
          /\ yaLast'.report.sidebar_rec = ya.sidebars
          /\ yaLast'.report.preload_rec = ya.preloads
          /\ yaLast'.report.restricted = ya.restricted
          /\ yaLast.op = "Report" => yaLast'.report = yaLast.report ]_vars

\* C18 witness: Report() was called on a failed session that holds a path
\* entry and a restricted record, and the session still holds them.
C18_Witness ==
    /\ yaLast.op = "Report"
    /\ yaPc = "Failed"
    /\ ya.path # <<>>
    /\ ya.restricted # <<>>
    /\ yaLast.report.autoplay_rec = ya.path
    /\ yaLast.report.restricted = ya.restricted

\* The session was initialized and has been torn down since.
TornDown == ~ya.initialized /\ run.trail # <<>> /\ run.trail[1] = "Ready"

\* C19 (as claimed): CleanUp or the finalizer, called on a session that was
\* already torn down, returns without raising.
C19_TeardownIdempotent ==
    (yaLast.op \in {"CleanUp", "__del__"} /\ TornDown) => yaLast.ret = "None"

\* C20 (as claimed): CleanUp called on an initialized session returns
\* whatever adapter calls failed in it, and leaves the session uninitialized,
\* for YouTubeAuditor and for SockPuppet.
C20_CleanUpNeverRaises ==
    /\ (yaLast.op = "CleanUp" /\ yaLast.was_init) =>
           (yaLast.ret = "None" /\ ~ya.initialized)
    /\ sp.last = "CleanUp returned" => ~sp.initialized

\* The interval the claim gives for a duration attribute and a budget: a
\* zero, empty or unreadable duration counts as 180.
WaitClaimed(attr, b) ==
    LET d == IF attr.t = "num" /\ attr.v # 0 THEN attr.v ELSE 180
    IN  IF b.kind = "float"
        THEN Max((d * b.val) \div 100, 0)
        ELSE Max(Min(d, b.val) - 1, 0)

\* C17 (as claimed): for every duration that is a finite number or is
\* unreadable, and every budget, watch and Run sleep for the claimed interval.
C17_WaitInterval ==
    (wres.site # "none" /\ wres.attr.t # "inf") =>
        wres.res = Slept(WaitClaimed(wres.attr, wres.budget))

\* The pool threads at work, and how often task t is in the pool's hands.
Busy == {t \in Tasks : pc[t] \in {"loop", "train", "run", "returned"}}
Queued(t) == Cardinality({i \in 1 .. Len(queue) : queue[i] = t})
WorkItems(t) == Queued(t) + (IF t \in Busy THEN 1 ELSE 0)

\* C14: at most Threads tasks are being attempted at any instant, and a task
\* is never in the pool twice, so that its attempts follow one another inside
\* one work item.
C14_BoundedConcurrency ==
    /\ Cardinality(Busy) <= Threads
    /\ \A t \in Tasks : WorkItems(t) <= 1
    /\ \A t \in Tasks : pc[t] \in {"train", "run"} => sess[t].initialized

\* C14 witness: Threads tasks are inside attempts at once, one of them on a
\* retry, while the next task of the list has not been started.
C14_Witness ==
    /\ Cardinality({t \in Tasks : pc[t] \in {"train", "run"}}) = Threads
    /\ \E t \in Tasks : pc[t] = "run" /\ attempt[t] > 0
    /\ \E t \in Tasks : fut[t] = "none"

\* The wave a task index belongs to, and the number of waves.
WaveOf(t) == t \div Threads
NumWaves == (NumTasks + Threads - 1) \div Threads

\* C15: a task is submitted only when every task of the earlier waves has
\* ended and been collected, and the pauses taken so far are one per wave
\* left behind, the last wave excepted.
C15_WavesInOrder ==
    /\ \A t, u \in Tasks :
          (WaveOf(u) < WaveOf(t) /\ fut[t] # "none") =>
              (collected[u] /\ fut[u] \in {"result", "none_result", "exception"})
    /\ slept = Min(batchStart \div Threads, NumWaves - 1)

\* C15 witness: run() has returned after waves in which a task was retried
\* and a task was abandoned, and one pause was taken.
C15_Witness ==
    /\ mainPc = "done"
    /\ slept = NumWaves - 1
    /\ slept = 1
    /\ \E t \in Tasks : fut[t] = "none_result" /\ WaveOf(t) = 0
    /\ \E t \in Tasks : fut[t] = "result" /\ incFailedCalls[t] > 0

C21_SnapshotIsolated ==
    snap.taken => (SnapValue = snap.at /\ state = snap.tracker)


\* C22: load_existing on a second tracker returns False and keeps the
\* initial state when no snapshot was ever written; otherwise it returns
\* True with a complete state, which is the first tracker's state whenever
\* no mutation came after the snapshot that was read.
C22_Recovers ==
    rec.called =>
        /\ rec.ver = 0 => (~rec.result /\ rec.state = InitialState)
        /\ rec.ver > 0 =>
              /\ rec.result
              /\ DOMAIN rec.state = DOMAIN InitialState
              /\ rec.ver = memVer => rec.state = state

\* C22 witness: the first tracker was killed inside a write that followed
\* an earlier complete one, and the second tracker loaded the earlier
\* snapshot.
C22_Witness ==
    /\ rec.called /\ rec.result
    /\ crashed
    /\ rec.ver > 0 /\ rec.ver < memVer
    /\ rec.state # InitialState


FirstHolder(i) ==
    IF \A b \in BackendIds : store.saved[b][i] = PyNone THEN 0
    ELSE CHOOSE b \in BackendIds :
            /\ store.saved[b][i] # PyNone
            /\ \A c \in BackendIds : c < b => store.saved[c][i] = PyNone

C25_EntryPerRunningTask ==
    \A t \in Tasks :
        pc[t] \in {"train", "run"} =>
            \A ph \in {"training", "collection"} :
                LET s == update_task_progress(state, t, ph)
                IN  t \in DOMAIN s.current_tasks /\ s.current_tasks[t] = ph


\* C28: in the legacy runner the seeds are watched in list order up to the
\* first failing watch, and Run is called only when every seed was watched
\* and none failed.
C28_RunAfterTraining ==
    /\ lt.watched = SubSeq(lt.ids, 1, Len(lt.watched))
    /\ lt.runCalls > 0 => (~lt.failed /\ lt.watched = lt.ids)


\* URL-change timeouts of the Run call so far: what is gone from its budget.
Timeouts == ErrAttempts - run.err_attempts

\* C29: during and after Run's loop the hop credit left is Hops minus the
\* path length whatever the number of timeouts, every advance gesture is
\* accounted for by a hop, a timeout taken from the one budget of the call,
\* or the sign-in stop; and Run that ends with the budget at zero ends with
\* -1, hops still missing.
C29_TimeoutBudget ==
    (yaLast.op = "Run" /\ run.result # "raise") =>
        /\ run.count = Hops - Len(ya.path)
        /\ Len(ya.sidebars) + Len(ya.preloads) = Len(ya.path)
        /\ Timeouts \in 0 .. ErrAttempts
        /\ run.advances - Len(ya.path) - Timeouts \in {0, 1}
        /\ run.advances - Len(ya.path) - Timeouts = 1 =>
              (run.result = "-1" /\ SaysSignIn(run.seenReason))
        /\ run.result = "0" => (run.err_attempts > 0 /\ run.count = 0)
        /\ (run.err_attempts = 0 /\ yaPc # "Collecting") =>
              (run.result = "-1" /\ run.count > 0 /\ yaPc = "Failed")

\* C29 witness: Run ended with -1 on an empty budget after a hop was
\* collected, so the timeouts fell in more than one hop or after the first.
C29_Witness ==
    /\ yaLast.op = "Run"
    /\ run.result = "-1"
    /\ run.err_attempts = 0
    /\ Len(ya.path) > 0
    /\ run.count > 0
    /\ run.advances = Len(ya.path) + ErrAttempts


\* C30: in the legacy puppet's collection phase the list of the mode has
\* one batch per path entry, the other list is empty, and every batch is a
\* list, an empty one when the extraction gave up.
C30_BatchPerHop ==
    /\ lt.mode = "long" => (Len(lt.sidebars) = Len(lt.path) /\ lt.preloads = <<>>)
    /\ lt.mode = "short" => (Len(lt.preloads) = Len(lt.path) /\ lt.sidebars = <<>>)
    /\ \A i \in 1 .. Len(lt.sidebars) : lt.sidebars[i] # PyNone
    /\ \A i \in 1 .. Len(lt.preloads) : lt.preloads[i] # PyNone


\* The calls made by all workers together, from the per-task call counts.
Total(f) ==
    LET S[n \in 0 .. NumTasks] == IF n = 0 THEN 0 ELSE S[n - 1] + f[n - 1]
    IN  S[NumTasks]

InLockedBlock == {"unlock", "open", "dump", "replace", "write_unlock"}

\* C27: the lock is held exactly by the thread that is inside a with block,
\* so never by a thread between two calls or waiting to enter _write, and
\* as long as the process lives some thread inside the tracker can step.
C27_LockDiscipline ==
    /\ lock \in {0} \cup CallerThreads
    /\ \A th \in CallerThreads : (lock = th) <=> (tpc[th] \in InLockedBlock)
    /\ (~crashed /\ \E th \in CallerThreads : tpc[th] \notin {"idle", "returned"})
          => ENABLED NextTracker

\* C27 witness: a thread waits to enter _write while the other one holds
\* the lock inside its own _write, after having released it once.
C27_Witness ==
    \E th, u \in CallerThreads :
        /\ lock = th
        /\ tpc[th] = "dump"
        /\ tpc[u] = "write"
        /\ ~crashed


\* C31: once a restriction indicator was visible at a hop of this session,
\* the restricted log holds a record for it.
C31_RestrictedRecorded ==
    run.indicator => ya.restricted # <<>>


\* C32: no call on the session ends with a timed-out wait raised to the
\* caller.
C32_NoTimeoutEscapes ==
    yaLast.ret # "TimeoutException"


\* C33: after a CleanUp that ran on an initialized session, in either mode,
\* the session holds no live adapter.
C33_CleanUpReleases ==
    (yaLast.op = "CleanUp" /\ yaLast.was_init) => ya.driver # "live"


\* C34: a call made on a session in the wrong lifecycle state (InitDriver on
\* an initialized one; Train, watch, Run or CleanUp on one that is not) ends
\* in an error, and a rejected call leaves the session's fields and its
\* lifecycle state as they were.
C34_LifecycleRespected ==
    [][ yaLast' # yaLast =>
          /\ (yaLast'.op = "InitDriver" /\ yaLast'.was_init) =>
                 yaLast'.ret = "AssertionError"
          /\ (yaLast'.op \in {"Train", "watch", "Run", "CleanUp"} /\ ~yaLast'.was_init) =>
                 yaLast'.ret \in {"AssertionError", "raise"}
          /\ (\/ yaLast'.ret = "AssertionError"
              \/ yaLast'.op = "CleanUp" /\ yaLast'.ret = "raise") =>
                 (ya' = ya /\ yaPc' = yaPc) ]_vars

\* InitDriver was rejected on an initialized session that holds seeds and a
\* path.
C34_Witness ==
    /\ yaLast.op = "InitDriver"
    /\ yaLast.ret = "AssertionError"
    /\ ya.initialized
    /\ ya.seed_ids # <<>>
    /\ ya.path # <<>>


\* C35: when run() has returned, completed_tasks is the number of tasks whose
\* report save_result stored.
C35_CompletedMeansStored ==
    mainPc = "done" => state.completed_tasks = Cardinality(stored)


\* C36: the status changes only from pending to running and from running to
\* completed; at the step that sets it to completed every task's future holds
\* its outcome and was collected, and every report was handed to save_result;
\* from a completed state no field of the tracker changes.
C36_StatusOrder ==
    [][ /\ state'.status # state.status =>
               <<state.status, state'.status>> \in
                   {<<"pending", "running">>, <<"running", "completed">>}
        /\ (state.status # "completed" /\ state'.status = "completed") =>
               \A t \in Tasks :
                  /\ fut[t] \in {"result", "none_result", "exception"}
                  /\ pc[t] = "done"
                  /\ collected[t]
                  /\ fut[t] = "result" => saveCalls[t] = 1
        /\ state.status = "completed" => state' = state ]_vars

\* run() has completed an experiment in which one task was stored and another
\* failed.
C36_Witness ==
    /\ state.status = "completed"
    /\ stored # {}
    /\ state.failed_tasks > 0
    /\ state.completed_tasks > 0


\* C37: a Run that returned 0 emitted collection_complete and nothing else
\* terminal; a Run that returned -1 emitted collection_failed and nothing
\* else terminal.
C37_TerminalEventMatches ==
    /\ (yaLast.op = "Run" /\ yaLast.ret = "0") =>
           run.terminal = <<"collection_complete">>
    /\ (yaLast.op = "Run" /\ yaLast.ret = "-1") =>
           run.terminal = <<"collection_failed">>


\* C38: Run's loop is entered at most Hops + ErrAttempts - 1 times, and every
\* iteration that does not leave Run lowers count + err_attempts.
C38_RunTerminates ==
    /\ [](run.iterations <= Hops + ErrAttempts - 1)
    /\ [][ run'.iterations # run.iterations /\ yaPc = "Collecting" =>
             \/ yaPc' # "Collecting"
             \/ run'.count + run'.err_attempts < run.count + run.err_attempts ]_vars

\* A Run that came to its end after the largest number of iterations.
C38_Witness ==
    /\ yaLast.op = "Run"
    /\ yaLast.ret \in {"0", "-1"}
    /\ run.iterations = Hops + ErrAttempts - 1


\* C39: InitDriver returned its success value (False) exactly when the
\* session's initialized flag is set afterwards, for YouTubeAuditor and for
\* SockPuppet.
C39_InitReportsReady ==
    /\ (yaLast.op = "InitDriver" /\ ~yaLast.was_init) =>
           ((yaLast.ret = "False") <=> ya.initialized)
    /\ sp.last = "InitDriver" =>
           ((sp.initRet = "False") <=> sp.initialized)


\* C40: a round of the pair runner stores the pair's results only when both
\* tasks returned a report; a round that stores nothing leaves the runner on
\* the same pair, to be run again; and the runner moves to the next pair only
\* in a round that stored.
C40_StoreOrRerun ==
    [][ (pr.pc = "loop" /\ pr' # pr /\ pr'.pc # "finished") =>
          LET both == \A i \in 1 .. 2 : pr'.results[i].kind = "dict"
              storedNow == pr'.db # pr.db
          IN  /\ storedNow => both
              /\ ~storedNow => (pr'.m = pr.m /\ pr'.pc = "loop")
              /\ pr'.m # pr.m => (storedNow /\ pr'.m = pr.m + 1) ]_vars

====
